---- MODULE Spec2Model ----
(***************************************************************************)
(* Model of the dependency-injection container of src/container.py.       *)
(*                                                                         *)
(* A registry (Container.config) maps type names to DIConf recipes.  Each *)
(* top-level call of Container.inject / Container.ainject is a task with  *)
(* an explicit call stack: the bottom frame is the inject call itself,    *)
(* every frame above it one activation of _build_dependency or            *)
(* _abuild_dependency.  A blocking call never yields; a suspend-capable   *)
(* call yields exactly where the code awaits an asynchronous computation. *)
(***************************************************************************)
EXTENDS Integers, Sequences, FiniteSets, TLC

(* ---------------------------------------------------------------- bounds *)

\* Number of top-level inject / ainject calls made in one behaviour.
MaxTasks == 2

(* ---------------------------------------------------------------- values *)

\* `self.cached = None`: the empty cache slot; also "no instance yet".
None == 0
\* A value taken from DIConf.kwargs (opaque, configured by the application).
Configured == -1
\* A value the caller of inject / ainject passed explicitly (opaque).
Explicit == -2

EmptyMap == [n \in {} |-> None]

\* Python's `f | g` on dicts: g overrides f on a name collision.
Merge(f, g) ==
    [n \in (DOMAIN f) \cup (DOMAIN g) |-> IF n \in DOMAIN g THEN g[n] ELSE f[n]]

Param(name, ann) == [name |-> name, ann |-> ann]

\* inspect.signature(cls.__init__) lists `self` first; a parameter without an
\* annotation has annotation inspect.Parameter.empty, whose __name__ is "_empty".
Self == Param("self", "_empty")

(* --------------------------------------------------------------- classes *)

\* class C: __init__(self)
\* class B: __init__(self, c: C)
\* class A: __init__(self, b: B)             (chain  A -> B -> C)
\*      or  __init__(self, b: B, c: C)       (A also needs C directly)
Types == {"A", "B", "C"}

InitC == <<Self>>
InitB == <<Self, Param("c", "C")>>
InitAChain == <<Self, Param("b", "B")>>
InitADiamond == <<Self, Param("b", "B"), Param("c", "C")>>

\* A lifecycle method is synchronous ("sync"), returns an awaitable ("async")
\* or raises ("raise").
CallKinds == {"sync", "async", "raise"}

\* Call(method, args, kwargs): only the kind of the method matters here.
Call(kind) == kind

\* A class, as far as the container can tell: the signature of its __init__,
\* whether its instances are false in a boolean test (the class defines
\* __bool__ or __len__), and whether its constructor raises.
Class(init, falsy, raises) == [init |-> init, falsy |-> falsy, raises |-> raises]

\* DIConf(cls_, args, kwargs, calls, attrs, cache); kwargs and attrs are
\* given by their names, the values being opaque.
DIConf(cls_, kwargs, calls, attrs, cache) ==
    [cls_ |-> cls_, kwargs |-> kwargs, calls |-> calls, attrs |-> attrs,
     cache |-> cache]

\* Which recipes cache, and whether the instances of A and C are false in a
\* boolean test.
Caching(ca, cc, falsy) == [A |-> ca, C |-> cc, falsy |-> falsy]

\* A registry: A with signature ia and configured keyword arguments ka; B
\* never cached, with lifecycle calls lb, its constructor raising or not; C
\* with an asynchronous lifecycle call followed by a synchronous one and two
\* attribute assignments.
Registry(ia, ka, lb, rb, cp) ==
    [T \in Types |->
        CASE T = "A" -> DIConf(Class(ia, cp.falsy, FALSE), ka, <<>>, {}, cp.A)
          [] T = "B" -> DIConf(Class(InitB, FALSE, rb), {}, lb, {}, FALSE)
          [] T = "C" -> DIConf(Class(InitC, cp.falsy, FALSE), {},
                               <<Call("async"), Call("sync")>>,
                               {"host", "port"}, cp.C)]

\* The registries the container is constructed with.
Registries ==
    { Registry(InitAChain, {}, <<>>, FALSE, Caching(TRUE, TRUE, FALSE)),
      Registry(InitAChain, {}, <<>>, FALSE, Caching(FALSE, FALSE, FALSE)),
      Registry(InitADiamond, {}, <<>>, FALSE, Caching(FALSE, TRUE, FALSE)),
      Registry(InitADiamond, {}, <<>>, FALSE, Caching(TRUE, TRUE, TRUE)),
      Registry(InitADiamond, {"c"}, <<>>, FALSE, Caching(FALSE, TRUE, FALSE)),
      Registry(InitAChain, {}, <<Call("raise")>>, FALSE, Caching(FALSE, TRUE, FALSE)),
      Registry(InitAChain, {}, <<>>, TRUE, Caching(FALSE, TRUE, FALSE)),
      [Registry(InitAChain, {}, <<>>, FALSE, Caching(FALSE, TRUE, FALSE))
          EXCEPT !["C"].calls = <<Call("async"), Call("raise")>>] }

(* ------------------------------------------------------------- callables *)

\* def drive(a: A), def after(a: A, c: C, d: C),
\* def plain(u: U, n): U has no recipe, n has no annotation.
\* isAsync: declared with `async def`, so that calling it returns a coroutine.
Fun(params, isAsync) == [params |-> params, isAsync |-> isAsync]

Drive == <<Param("a", "A")>>
After == <<Param("a", "A"), Param("c", "C"), Param("d", "C")>>
Plain == <<Param("u", "U"), Param("n", "_empty")>>

\* One top-level call: inject(fun, *args, **kwargs) or ainject(...).
\* args is the number of positional values, kwargs the set of keyword names.
Invocation(kind, fun, args, kwargs) ==
    [kind |-> kind, fun |-> fun, args |-> args, kwargs |-> kwargs]

\* The calls the application makes: without and with explicit positional and
\* keyword values, of plain and of coroutine functions, through both entry
\* points.
Invocations ==
    { Invocation("sync", Fun(Drive, FALSE), 0, {}),
      Invocation("sync", Fun(After, FALSE), 0, {}),
      Invocation("sync", Fun(After, FALSE), 1, {"d"}),
      Invocation("sync", Fun(Plain, FALSE), 1, {"n"}),
      Invocation("sync", Fun(Plain, TRUE), 1, {"n"}),
      Invocation("async", Fun(Drive, TRUE), 0, {}),
      Invocation("async", Fun(Plain, FALSE), 1, {"n"}) }

NoInvocation == Invocation("none", Fun(<<>>, FALSE), 0, {})

(* --------------------------------------------------------------- helpers *)

Names(params) == {params[k].name : k \in 1..Len(params)}

\* The loop of _get_params_to_resolve: walks the signature in order; while
\* positional values remain, one is popped and the parameter removed; after
\* that, while keyword names remain, a parameter named by one is removed.
RECURSIVE ParamsLoop(_, _, _, _, _)
ParamsLoop(sig, k, args_, kwargs_, params_) ==
    IF k > Len(sig) THEN params_
    ELSE LET param == sig[k].name IN
         IF args_ > 0
         THEN ParamsLoop(sig, k + 1, args_ - 1, kwargs_, params_ \ {param})
         ELSE IF kwargs_ # {} /\ param \in kwargs_
         THEN ParamsLoop(sig, k + 1, args_, kwargs_ \ {param}, params_ \ {param})
         ELSE ParamsLoop(sig, k + 1, args_, kwargs_, params_)

\* Faulty variant of get_params_to_resolve: the keyword arguments are not consulted.
get_params_to_resolve_positional_only(sig, args, kwargs) ==
    LET params_ == ParamsLoop(sig, 1, args, {}, Names(sig))
    IN  SelectSeq(sig, LAMBDA p : p.name \in params_)

get_params_to_resolve(sig, args, kwargs) ==
    LET params_ == ParamsLoop(sig, 1, args, kwargs, Names(sig))
    IN  SelectSeq(sig, LAMBDA p : p.name \in params_)

\* _get_configurable: keep the parameters whose annotation names a recipe.
get_configurable(config_, parameters) ==
    SelectSeq(parameters, LAMBDA p : p.ann \in DOMAIN config_)

(* ----------------------------------------------------------------- state *)

VARIABLES
    config,     \* Container.config: type name -> DIConf
    loop,       \* whether the calls are made inside a running event loop
    cached,     \* DIConf.cached of every recipe: an object id or None
    objects,    \* every instance constructed so far, in construction order
    tasks,      \* the top-level inject / ainject calls
    running     \* the task that holds the thread ({} when none does)

vars == <<config, loop, cached, objects, tasks, running>>

TaskIds == 1..MaxTasks

\* bool(x) of a cache slot: None is false, an instance is false when its class
\* says so.
Truthy(v) == v # None /\ ~config[objects[v].cls].cls_.falsy

\* _get_cached: {p.param.name: p.conf.cached for p in params
\*               if p.conf.cache and p.conf.cached}
get_cached(params) ==
    LET hit == {k \in 1..Len(params) :
                   config[params[k].ann].cache /\ Truthy(cached[params[k].ann])}
    IN  [n \in {params[k].name : k \in hit} |->
            cached[params[CHOOSE k \in hit : params[k].name = n].ann]]

(* ---------------------------------------------------------------- frames *)

\* One activation record.  conf = "" for the inject / ainject call itself,
\* otherwise the type whose recipe is being built for parameter `name`.
\*   params      params_to_resolve        cached      the dict `cached`
\*   resolved    the dict `resolved`      dependency  the local `dependency`
\*   call        index of the next lifecycle call
Frame(conf, name, params) ==
    [conf |-> conf, name |-> name, params |-> params,
     cached |-> get_cached(params), resolved |-> EmptyMap,
     dependency |-> None, pc |-> "resolve", call |-> 1]

\* Faulty variant of Pending: a parameter that the recipe's configured keyword
\* arguments supply is not built.
Pending_skipping_configured(f) ==
    SelectSeq(f.params,
              LAMBDA p : /\ p.name \notin DOMAIN f.cached
                         /\ p.name \notin DOMAIN f.resolved
                         /\ (f.conf # "" => p.name \notin config[f.conf].kwargs))

\* The parameters the comprehension has still to build, in order:
\* `for p in params_to_resolve if p.param.name not in cached`.
Pending(f) ==
    SelectSeq(f.params,
              LAMBDA p : p.name \notin DOMAIN f.cached /\ p.name \notin DOMAIN f.resolved)

Top(t) == tasks[t].stack[Len(tasks[t].stack)]

SetTop(t, f) == [tasks[t].stack EXCEPT ![Len(tasks[t].stack)] = f]

\* One top-level call.  status: "idle" (not made yet), "running", "awaiting"
\* (suspended in an await), "returned", "raised".  received: the arguments the
\* callable was invoked with.  before: the calls that had completed when this
\* one was made.
Task(status, inv, stack, received, result, before) ==
    [status |-> status, inv |-> inv, stack |-> stack, received |-> received,
     result |-> result, before |-> before]

Completed(t) == tasks[t].status \in {"returned", "raised"}

\* The event loop gives the thread to a task only when no task holds it.
Free == running = {}

(* ------------------------------------------------------------- actions *)

Init ==
    /\ config \in Registries
    /\ loop \in BOOLEAN
    /\ cached = [T \in Types |-> None]
    /\ objects = <<>>
    /\ tasks = [t \in TaskIds |-> Task("idle", NoInvocation, <<>>, EmptyMap, "none", {})]
    /\ running = {}

\* inject / ainject, up to the comprehension: the parameters to resolve, the
\* configurable ones among them, and the snapshot of the cache.
Inject(t, inv) ==
    /\ Free
    /\ tasks[t].status = "idle"
    /\ \A u \in TaskIds : u < t => tasks[u].status # "idle"
    /\ inv.kind = "async" => loop
    /\ LET to_resolve == get_params_to_resolve(inv.fun.params, inv.args, inv.kwargs)
           params_to_resolve == get_configurable(config, to_resolve)
       IN  tasks' = [tasks EXCEPT ![t] =
                        Task("running", inv, <<Frame("", "", params_to_resolve)>>,
                             EmptyMap, "none", {u \in TaskIds : Completed(u)})]
    /\ running' = {t}
    /\ UNCHANGED <<config, loop, cached, objects>>

\* The comprehension reaches a parameter that is not in `cached`: enter
\* _build_dependency / _abuild_dependency for it.
Resolve(t) ==
    /\ t \in running
    /\ Top(t).pc = "resolve"
    /\ Pending(Top(t)) # <<>>
    /\ LET p == Head(Pending(Top(t)))
           to_resolve == get_params_to_resolve(config[p.ann].cls_.init, 0, {})
           params_to_resolve == get_configurable(config, to_resolve)
       IN  tasks' = [tasks EXCEPT ![t].stack =
                        Append(@, Frame(p.ann, p.name, params_to_resolve))]
    /\ UNCHANGED <<config, loop, cached, objects, running>>

\* Faulty variant of constructor_kwargs: the freshly built dependencies are left out.
constructor_kwargs_without_resolved(f) ==
    Merge(f.cached, [n \in config[f.conf].kwargs |-> Configured])

\* **resolved | cached | param.conf.kwargs
constructor_kwargs(f) ==
    Merge(Merge(f.resolved, f.cached),
          [n \in config[f.conf].kwargs |-> Configured])

\* dependency = param.conf.cls_(*args, **resolved | cached | param.conf.kwargs)
Construct(t) ==
    /\ t \in running
    /\ Top(t).conf # ""
    /\ Top(t).pc = "resolve"
    /\ Pending(Top(t)) = <<>>
    /\ ~config[Top(t).conf].cls_.raises
    /\ LET f == Top(t)
           conf == config[f.conf]
           id == Len(objects) + 1
           kw == constructor_kwargs(f)
       IN  /\ objects' = Append(objects,
                  [cls |-> f.conf, kwargs |-> kw, attrs |-> {},
                   calls |-> [k \in 1..Len(conf.calls) |->
                                 [state |-> "no", attrs |-> {}]],
                   returned |-> FALSE, task |-> t,
                   root |-> tasks[t].stack[2].name])
           /\ tasks' = [tasks EXCEPT ![t].stack =
                           SetTop(t, [f EXCEPT !.dependency = id, !.pc = "attrs"])]
    /\ UNCHANGED <<config, loop, cached, running>>

\* An exception leaves every frame of the call: neither build variant nor
\* inject / ainject catches anything.
Raise(t) ==
    /\ tasks' = [tasks EXCEPT ![t] =
           [@ EXCEPT !.status = "raised", !.stack = <<>>, !.result = "Error"]]
    /\ running' = {}

\* Faulty variant of ConstructRaises: the slots written earlier in the pass are
\* emptied again before the exception leaves.
ConstructRaises_rollback(t) ==
    /\ t \in running
    /\ Top(t).conf # ""
    /\ Top(t).pc = "resolve"
    /\ Pending(Top(t)) = <<>>
    /\ config[Top(t).conf].cls_.raises
    /\ Raise(t)
    /\ cached' = [T \in Types |->
                     IF cached[T] # None /\ objects[cached[T]].task = t
                     THEN None ELSE cached[T]]
    /\ UNCHANGED <<config, loop, objects>>

\* param.conf.cls_(...) raises.
ConstructRaises(t) ==
    /\ t \in running
    /\ Top(t).conf # ""
    /\ Top(t).pc = "resolve"
    /\ Pending(Top(t)) = <<>>
    /\ config[Top(t).conf].cls_.raises
    /\ Raise(t)
    /\ UNCHANGED <<config, loop, cached, objects>>

\* Faulty variant of SetAttrs: the instance is cached as soon as it is constructed,
\* before its lifecycle calls.
SetAttrs_caching(t) ==
    /\ t \in running
    /\ Top(t).pc = "attrs"
    /\ LET f == Top(t) IN
       /\ objects' = [objects EXCEPT ![f.dependency].attrs = config[f.conf].attrs]
       /\ tasks' = [tasks EXCEPT ![t].stack = SetTop(t, [f EXCEPT !.pc = "calls"])]
       /\ cached' = IF config[f.conf].cache /\ ~Truthy(cached[f.conf])
                    THEN [cached EXCEPT ![f.conf] = f.dependency]
                    ELSE cached
    /\ UNCHANGED <<config, loop, running>>

\* Faulty variant of SetAttrs: the lifecycle calls start without the assignments.
SetAttrs_skipped(t) ==
    /\ t \in running
    /\ Top(t).pc = "attrs"
    /\ tasks' = [tasks EXCEPT ![t].stack = SetTop(t, [Top(t) EXCEPT !.pc = "calls"])]
    /\ UNCHANGED <<config, loop, cached, objects, running>>

\* for attr, value in param.conf.attrs.items(): setattr(dependency, attr, value)
SetAttrs(t) ==
    /\ t \in running
    /\ Top(t).pc = "attrs"
    /\ LET f == Top(t) IN
       /\ objects' = [objects EXCEPT ![f.dependency].attrs = config[f.conf].attrs]
       /\ tasks' = [tasks EXCEPT ![t].stack = SetTop(t, [f EXCEPT !.pc = "calls"])]
    /\ UNCHANGED <<config, loop, cached, running>>

\* Faulty variant of build_call: with a loop running the awaitable result is
\* waited for as well.
build_call_waiting(kind) ==
    "done"

\* _build_dependency, one lifecycle call: a synchronous method has completed
\* when it returns; an awaitable result is run to completion by asyncio.run
\* when no loop is running, and otherwise handed to loop.create_task and not
\* waited for.
build_call(kind) ==
    IF kind = "sync" THEN "done"
    ELSE IF ~loop THEN "done" ELSE "scheduled"

\* Faulty variant of abuild_call: an awaitable result is scheduled, not awaited.
abuild_call_not_awaited(kind) ==
    IF kind = "sync" THEN "done" ELSE "scheduled"

\* _abuild_dependency, one lifecycle call: an awaitable result is awaited.
abuild_call(kind) ==
    IF kind = "sync" THEN "done" ELSE "pending"

\* result = getattr(dependency, call.method)(*call.args, **call.kwargs), and
\* what the build does with the result.
LifecycleCall(t) ==
    /\ t \in running
    /\ Top(t).pc = "calls"
    /\ Top(t).call <= Len(config[Top(t).conf].calls)
    /\ config[Top(t).conf].calls[Top(t).call] # "raise"
    /\ LET f == Top(t)
           kind == config[f.conf].calls[f.call]
           state == IF tasks[t].inv.kind = "sync"
                    THEN build_call(kind) ELSE abuild_call(kind)
       IN  /\ objects' = [objects EXCEPT ![f.dependency].calls[f.call] =
                             [state |-> state, attrs |-> objects[f.dependency].attrs]]
           /\ IF state = "pending"
              THEN /\ tasks' = [tasks EXCEPT
                          ![t].stack = SetTop(t, [f EXCEPT !.pc = "await"]),
                          ![t].status = "awaiting"]
                   /\ running' = {}
              ELSE /\ tasks' = [tasks EXCEPT
                          ![t].stack = SetTop(t, [f EXCEPT !.call = @ + 1])]
                   /\ running' = running
    /\ UNCHANGED <<config, loop, cached>>

\* Faulty variant of LifecycleRaises: the instance is cached before its
\* lifecycle calls are made.
LifecycleRaises_cached(t) ==
    /\ t \in running
    /\ Top(t).pc = "calls"
    /\ Top(t).call <= Len(config[Top(t).conf].calls)
    /\ config[Top(t).conf].calls[Top(t).call] = "raise"
    /\ objects' = [objects EXCEPT ![Top(t).dependency].calls[Top(t).call] =
                      [state |-> "raised", attrs |-> objects[Top(t).dependency].attrs]]
    /\ Raise(t)
    /\ cached' = IF config[Top(t).conf].cache /\ ~Truthy(cached[Top(t).conf])
                 THEN [cached EXCEPT ![Top(t).conf] = Top(t).dependency]
                 ELSE cached
    /\ UNCHANGED <<config, loop>>

\* getattr(dependency, call.method)(...) raises.
LifecycleRaises(t) ==
    /\ t \in running
    /\ Top(t).pc = "calls"
    /\ Top(t).call <= Len(config[Top(t).conf].calls)
    /\ config[Top(t).conf].calls[Top(t).call] = "raise"
    /\ objects' = [objects EXCEPT ![Top(t).dependency].calls[Top(t).call] =
                      [state |-> "raised", attrs |-> objects[Top(t).dependency].attrs]]
    /\ Raise(t)
    /\ UNCHANGED <<config, loop, cached>>

\* Faulty variant of ResumeBuild: the awaited computation completes, but the build
\* that awaits it is not woken.
ResumeBuild_lost(t) ==
    /\ Free
    /\ tasks[t].status = "awaiting"
    /\ Top(t).pc = "await"
    /\ objects[Top(t).dependency].calls[Top(t).call].state = "pending"
    /\ objects' = [objects EXCEPT ![Top(t).dependency].calls[Top(t).call].state = "done"]
    /\ UNCHANGED <<config, loop, cached, tasks, running>>

\* `await result` returns: the awaited lifecycle computation has completed and
\* the build goes on with the next call.
ResumeBuild(t) ==
    /\ Free
    /\ tasks[t].status = "awaiting"
    /\ Top(t).pc = "await"
    /\ LET f == Top(t) IN
       /\ objects' = [objects EXCEPT ![f.dependency].calls[f.call].state = "done"]
       /\ tasks' = [tasks EXCEPT
              ![t].stack = SetTop(t, [f EXCEPT !.pc = "calls", !.call = @ + 1]),
              ![t].status = "running"]
    /\ running' = {t}
    /\ UNCHANGED <<config, loop, cached>>

\* A computation handed to loop.create_task runs once the loop has the thread;
\* the loop runs the tasks handed to it in the order of their creation.
Detached(o, k) ==
    /\ Free
    /\ o \in 1..Len(objects)
    /\ k \in 1..Len(objects[o].calls)
    /\ objects[o].calls[k].state = "scheduled"
    /\ \A p \in 1..(o - 1) : \A j \in 1..Len(objects[p].calls) :
           objects[p].calls[j].state # "scheduled"
    /\ objects' = [objects EXCEPT ![o].calls[k].state = "done"]
    /\ UNCHANGED <<config, loop, cached, tasks, running>>

\* Faulty variant of store: a populated slot is overwritten.
store_last_writer(conf, dependency) ==
    IF config[conf].cache
    THEN [cached EXCEPT ![conf] = dependency]
    ELSE cached

\* Faulty variant of store: the cache flag is not consulted.
store_ignoring_flag(conf, dependency) ==
    IF ~Truthy(cached[conf])
    THEN [cached EXCEPT ![conf] = dependency]
    ELSE cached

\* if param.conf.cache and not param.conf.cached: param.conf.cached = dependency
store(conf, dependency) ==
    IF config[conf].cache /\ ~Truthy(cached[conf])
    THEN [cached EXCEPT ![conf] = dependency]
    ELSE cached

\* The end of a build: the cache write and `return dependency`, which puts the
\* instance into the caller's `resolved` under the parameter's name.
Store(t) ==
    /\ t \in running
    /\ Top(t).pc = "calls"
    /\ Top(t).call > Len(config[Top(t).conf].calls)
    /\ LET f == Top(t)
           n == Len(tasks[t].stack)
           caller == tasks[t].stack[n - 1]
       IN  /\ cached' = store(f.conf, f.dependency)
           /\ objects' = [objects EXCEPT ![f.dependency].returned = TRUE]
           /\ tasks' = [tasks EXCEPT ![t].stack =
                  Append(SubSeq(@, 1, n - 2),
                         [caller EXCEPT !.resolved =
                             Merge(@, [x \in {f.name} |-> f.dependency])])]
    /\ UNCHANGED <<config, loop, running>>

\* fun(*args, **kwargs | resolved | cached): the keyword map of the call.
call_kwargs(inv, f) ==
    Merge(Merge([n \in inv.kwargs |-> Explicit], f.resolved), f.cached)

\* The parameters bound by position.
Positional(inv) ==
    {inv.fun.params[k].name : k \in 1..inv.args}

\* Python binds the call when every parameter gets exactly one value (the
\* callables here declare no defaults); otherwise the call raises TypeError
\* before the body runs.
Binds(inv, kw) ==
    /\ inv.args <= Len(inv.fun.params)
    /\ Positional(inv) \cap DOMAIN kw = {}
    /\ Positional(inv) \cup DOMAIN kw = Names(inv.fun.params)

\* inject: `return fun(...)`.  A coroutine function returns its coroutine
\* object, which inject returns as it is.
inject_return(isAsync) ==
    IF isAsync THEN "coroutine" ELSE "value"

\* ainject: `return await fun(...)`.  The result of a coroutine function is
\* awaited; awaiting the result of a plain function raises TypeError.
ainject_return(isAsync) ==
    IF isAsync THEN "await" ELSE "TypeError"

\* The last line of inject / ainject: the callable is invoked.
CallFun(t) ==
    /\ t \in running
    /\ Top(t).conf = ""
    /\ Top(t).pc = "resolve"
    /\ Pending(Top(t)) = <<>>
    /\ LET inv == tasks[t].inv
           f == Top(t)
           kw == call_kwargs(inv, f)
           received == Merge([n \in Positional(inv) |-> Explicit], kw)
           out == IF inv.kind = "sync" THEN inject_return(inv.fun.isAsync)
                  ELSE ainject_return(inv.fun.isAsync)
       IN  tasks' = [tasks EXCEPT ![t] =
              IF ~Binds(inv, kw)
              THEN [@ EXCEPT !.status = "raised", !.stack = <<>>,
                             !.result = "TypeError"]
              ELSE IF out = "await"
              THEN [@ EXCEPT !.status = "awaiting", !.received = received,
                             !.stack = <<[f EXCEPT !.pc = "awaitfun"]>>]
              ELSE IF out = "TypeError"
              THEN [@ EXCEPT !.status = "raised", !.stack = <<>>,
                             !.received = received, !.result = out]
              ELSE [@ EXCEPT !.status = "returned", !.stack = <<>>,
                             !.received = received, !.result = out]]
    /\ running' = {}
    /\ UNCHANGED <<config, loop, cached, objects>>

\* `await fun(...)` returns: ainject returns the awaited value.
ResumeFun(t) ==
    /\ Free
    /\ tasks[t].status = "awaiting"
    /\ Top(t).pc = "awaitfun"
    /\ tasks' = [tasks EXCEPT ![t] =
           [@ EXCEPT !.status = "returned", !.stack = <<>>, !.result = "value"]]
    /\ UNCHANGED <<config, loop, cached, objects, running>>

Next ==
    \/ \E t \in TaskIds, inv \in Invocations : Inject(t, inv)
    \/ \E t \in TaskIds : Resolve(t)
    \/ \E t \in TaskIds : Construct(t)
    \/ \E t \in TaskIds : ConstructRaises(t)
    \/ \E t \in TaskIds : SetAttrs(t)
    \/ \E t \in TaskIds : LifecycleCall(t)
    \/ \E t \in TaskIds : LifecycleRaises(t)
    \/ \E t \in TaskIds : ResumeBuild(t)
    \/ \E t \in TaskIds : Store(t)
    \/ \E t \in TaskIds : CallFun(t)
    \/ \E t \in TaskIds : ResumeFun(t)
    \/ \E o \in 1..Len(objects), k \in 1..2 : Detached(o, k)

Spec == Init /\ [][Next]_vars

\* The steps of call t once it has been made.
Step(t) ==
    \/ Resolve(t) \/ Construct(t) \/ ConstructRaises(t) \/ SetAttrs(t)
    \/ LifecycleCall(t) \/ LifecycleRaises(t) \/ ResumeBuild(t) \/ Store(t)
    \/ CallFun(t) \/ ResumeFun(t)

\* A call that holds the thread goes on, every awaited computation returns,
\* and the event loop resumes every task that can go on.
FairSpec == Spec /\ \A t \in TaskIds : WF_vars(Step(t))

(* ------------------------------------------------------------ observers *)

\* The annotation of the parameter called n in signature sig.
Ann(sig, n) == sig[CHOOSE k \in 1..Len(sig) : sig[k].name = n].ann

ObjectIds == 1..Len(objects)

\* The instances of class T, i.e. the invocations of T's constructor that
\* returned.
InstancesOf(T) == {x \in ObjectIds : objects[x].cls = T}

\* The places where an instance was handed to a consumer for a parameter
\* annotated T: a constructor's keyword argument, or an argument of the
\* callable of an inject / ainject call.
Slots(T) ==
    UNION { { [kind |-> "object", id |-> x, name |-> n, value |-> objects[x].kwargs[n]] :
                n \in {m \in DOMAIN objects[x].kwargs :
                          /\ Ann(config[objects[x].cls].cls_.init, m) = T
                          /\ objects[x].kwargs[m] > None} } :
            x \in ObjectIds }
    \cup
    UNION { { [kind |-> "task", id |-> t, name |-> n, value |-> tasks[t].received[n]] :
                n \in {m \in DOMAIN tasks[t].received :
                          /\ Ann(tasks[t].inv.fun.params, m) = T
                          /\ tasks[t].received[m] > None} } :
            t \in TaskIds }

\* The calls were made one after another: each when all earlier ones had
\* completed.
Sequential ==
    \A t \in TaskIds :
        tasks[t].status # "idle" => tasks[t].before = {u \in TaskIds : u < t}

\* The callable of inv has exactly one parameter, annotated with a type whose
\* recipe caches, and inv passes no explicit argument.
OneCachedParam(inv) ==
    /\ Len(inv.fun.params) = 1
    /\ inv.fun.params[1].ann \in Types
    /\ config[inv.fun.params[1].ann].cache
    /\ inv.args = 0
    /\ inv.kwargs = {}

(* --------------------------------------------------------------- claims *)

\* C1: for a cache-enabled recipe of type T and a callable with exactly one
\* parameter annotated T, two completed calls of inject (or of ainject) made
\* one after the other with no explicit arguments pass the identical instance
\* to the callable, and T's constructor is invoked exactly once across both.
C1_SameInstanceBuiltOnce ==
    (/\ MaxTasks >= 2
     /\ tasks[1].status = "returned"
     /\ tasks[2].status = "returned"
     /\ 1 \in tasks[2].before
     /\ tasks[1].inv = tasks[2].inv
     /\ OneCachedParam(tasks[1].inv))
    => LET p == tasks[1].inv.fun.params[1] IN
       /\ tasks[1].received[p.name] = tasks[2].received[p.name]
       /\ Cardinality({x \in InstancesOf(p.ann) : objects[x].task \in {1, 2}}) = 1

\* C2: for a cache-enabled recipe, after any sequence of inject / ainject
\* calls run one after another, the constructor has been invoked at most once
\* and every consumer of the type received the recipe's cached instance, also
\* when one resolution pass needs the type more than once.
C2_OneInstancePerCachedType ==
    Sequential =>
        \A T \in Types :
            config[T].cache =>
                /\ Cardinality(InstancesOf(T)) <= 1
                /\ \A s \in Slots(T) : s.value = cached[T]

\* C3: once a recipe's cached slot holds an instance, no later step replaces
\* it with a different instance or empties it.
C3_CachedNeverReplaced ==
    [][\A T \in Types : cached[T] # None => cached'[T] = cached[T]]_vars

\* C4: for a recipe with cache disabled the cached slot is empty in every
\* reachable state, and every resolution of the type constructs an instance
\* of its own: no two consumers are handed the same instance.
C4_DisabledNeverCached ==
    \A T \in Types :
        ~config[T].cache =>
            /\ cached[T] = None
            /\ \A s \in Slots(T) : objects[s.value].cls = T
            /\ \A s1, s2 \in Slots(T) : s1 # s2 => s1.value # s2.value

\* C4 witness: with cache disabled, instances of the type have been handed
\* both to a constructor and to the callable of a completed call.
C4_Witness ==
    \E T \in Types :
        /\ ~config[T].cache
        /\ \E s1, s2 \in Slots(T) :
              /\ s1.kind = "object" /\ s2.kind = "task"
              /\ tasks[s2.id].status = "returned"
        /\ Cardinality(InstancesOf(T)) >= 3

\* The parameters of inv's callable that the caller supplies explicitly.
Covered(inv) == Positional(inv) \cup (inv.kwargs \cap Names(inv.fun.params))

\* C5: a declared parameter covered by a positional value or named in the
\* keyword arguments of inject / ainject is never resolved through the
\* registry: it is not among the parameters to resolve (so no cache slot is
\* read for it), nothing is built on its behalf, and the callable receives
\* the caller's value.
C5_ExplicitNeverResolved ==
    \A t \in TaskIds :
        tasks[t].status # "idle" =>
            \A n \in Covered(tasks[t].inv) :
                /\ \A x \in ObjectIds :
                      objects[x].task = t => objects[x].root # n
                /\ \A k \in 1..Len(tasks[t].stack) :
                      /\ tasks[t].stack[k].name # n
                      /\ k = 1 => n \notin Names(tasks[t].stack[k].params)
                /\ tasks[t].received # EmptyMap => tasks[t].received[n] = Explicit

\* C5 witness: a completed call with a positional and a keyword value for
\* parameters whose types have recipes, and a third parameter injected.
C5_Witness ==
    \E t \in TaskIds :
        /\ tasks[t].status = "returned"
        /\ tasks[t].inv.args = 1
        /\ tasks[t].inv.kwargs = {"d"}
        /\ tasks[t].inv.fun.params = After
        /\ tasks[t].received["a"] = Explicit
        /\ tasks[t].received["d"] = Explicit
        /\ tasks[t].received["c"] > None

\* The parameters of T's constructor that have a recipe.
Dependencies(T) ==
    get_configurable(config, get_params_to_resolve(config[T].cls_.init, 0, {}))

\* v is an instance of class T whose build has returned.
Built(v, T) == v \in ObjectIds /\ objects[v].cls = T /\ objects[v].returned

\* What the callable of a call was given is fully built.
CallableInvokedLast ==
    \A t \in TaskIds : \A n \in DOMAIN tasks[t].received :
        tasks[t].received[n] > None =>
            Built(tasks[t].received[n], Ann(tasks[t].inv.fun.params, n))

\* C6 (as stated): a constructor is invoked only after every registry-
\* resolvable dependency of it has been fully built, and that dependency is
\* passed to it; the callable is invoked after all of that.
C6_DependenciesBuiltAndPassed ==
    /\ \A x \in ObjectIds :
          \A k \in 1..Len(Dependencies(objects[x].cls)) :
              LET p == Dependencies(objects[x].cls)[k] IN
              /\ p.name \in DOMAIN objects[x].kwargs
              /\ objects[x].kwargs[p.name] < x
              /\ Built(objects[x].kwargs[p.name], p.ann)
    /\ CallableInvokedLast

\* C6 (amended): a constructor is invoked only after every registry-
\* resolvable dependency of it has been fully built; the dependency is passed
\* to it unless the recipe's configured keyword arguments name the parameter,
\* in which case the configured value is passed; the callable is invoked after
\* all of that.  For the chain A -> B -> C: C, then B(C), then A(B).
C6_DependenciesBuiltFirst ==
    /\ \A x \in ObjectIds :
          \A k \in 1..Len(Dependencies(objects[x].cls)) :
              LET p == Dependencies(objects[x].cls)[k] IN
              /\ p.name \in DOMAIN objects[x].kwargs
              /\ IF p.name \in config[objects[x].cls].kwargs
                 THEN /\ objects[x].kwargs[p.name] = Configured
                      /\ \E v \in 1..(x - 1) : Built(v, p.ann)
                 ELSE /\ objects[x].kwargs[p.name] < x
                      /\ Built(objects[x].kwargs[p.name], p.ann)
    /\ CallableInvokedLast

\* C6 witness: with A declared as __init__(self, b: B), a completed call of
\* drive(a: A) got an A holding a B holding a C, constructed in the order
\* C, B, A.
C6_Witness ==
    \E t \in TaskIds :
        /\ config["A"].cls_.init = InitAChain
        /\ tasks[t].status = "returned"
        /\ tasks[t].inv.fun.params = Drive
        /\ LET a == tasks[t].received["a"] IN
           /\ a > None
           /\ objects[a].task = t
           /\ LET b == objects[a].kwargs["b"] IN
              /\ b < a
              /\ objects[b].kwargs["c"] < b
              /\ objects[objects[b].kwargs["c"]].task = t

\* C7: with a finite acyclic dependency graph and constructors and lifecycle
\* calls that return, every inject call, and every ainject call under fair
\* scheduling, eventually completes.
C7_EveryCallCompletes ==
    \A t \in TaskIds :
        (tasks[t].status \in {"running", "awaiting"}) ~> Completed(t)

\* C7 witness: one call has returned after building the chain A -> B -> C
\* while another one is suspended inside a build.
C7_Witness ==
    \E t, u \in TaskIds :
        /\ tasks[t].status = "returned"
        /\ tasks[t].inv.fun.params = Drive
        /\ Cardinality({x \in ObjectIds : objects[x].task = t}) >= 3
        /\ tasks[u].status = "awaiting"
        /\ Len(tasks[u].stack) >= 3

\* C8: all of the recipe's attrs are assigned on the new instance before the
\* first lifecycle call is invoked: every lifecycle call that has been
\* invoked found them all.
C8_AttrsBeforeCalls ==
    \A x \in ObjectIds : \A k \in 1..Len(objects[x].calls) :
        objects[x].calls[k].state # "no" =>
            objects[x].calls[k].attrs = config[objects[x].cls].attrs

\* C8 witness: a lifecycle call has been invoked on an instance whose recipe
\* assigns attributes, in a blocking and in a suspend-capable build.
C8_Witness ==
    \E x, y \in ObjectIds :
        /\ tasks[objects[x].task].inv.kind = "sync"
        /\ tasks[objects[y].task].inv.kind = "async"
        /\ config[objects[x].cls].attrs # {}
        /\ config[objects[y].cls].attrs # {}
        /\ objects[x].calls[2].state = "done"
        /\ objects[y].calls[2].state = "done"

\* C9: lifecycle calls are invoked in their configured order in both build
\* variants; in the suspend-capable build an asynchronous call has completed
\* before the next call is invoked and before the instance is returned.
C9_CallsInOrder ==
    \A x \in ObjectIds :
        /\ \A k \in 1..(Len(objects[x].calls) - 1) :
              objects[x].calls[k + 1].state # "no" =>
                  /\ objects[x].calls[k].state # "no"
                  /\ tasks[objects[x].task].inv.kind = "async" =>
                        objects[x].calls[k].state = "done"
        /\ (tasks[objects[x].task].inv.kind = "async" /\ objects[x].returned) =>
              \A k \in 1..Len(objects[x].calls) : objects[x].calls[k].state = "done"

\* C9 witness: a suspend-capable build is suspended in an asynchronous
\* lifecycle call that another call follows, and another such build has
\* returned its instance.
C9_Witness ==
    \E x, y \in ObjectIds :
        /\ tasks[objects[x].task].inv.kind = "async"
        /\ objects[x].cls = "C"
        /\ config["C"].calls[1] = "async"
        /\ objects[x].calls[1].state = "pending"
        /\ objects[x].calls[2].state = "no"
        /\ tasks[objects[y].task].inv.kind = "async"
        /\ objects[y].cls = "C"
        /\ objects[y].returned

\* C10: when the callable invoked by the blocking inject returns an
\* asynchronous computation, inject runs it to completion and returns its
\* final value if no event loop is running, and schedules it as a task and
\* returns the task handle if one is.
C10_InjectBestEffort ==
    \A t \in TaskIds :
        (/\ tasks[t].status = "returned"
         /\ tasks[t].inv.kind = "sync"
         /\ tasks[t].inv.fun.isAsync)
        => tasks[t].result = IF loop THEN "task" ELSE "value"

\* C11: ainject works with synchronous and asynchronous callables: whenever
\* it has invoked the callable, it returns the callable's plain value, or the
\* awaited result of the awaitable the callable returned, and does not raise.
C11_AinjectAnyCallable ==
    \A t \in TaskIds :
        (/\ tasks[t].inv.kind = "async"
         /\ Completed(t)
         /\ tasks[t].received # EmptyMap)
        => /\ tasks[t].status = "returned"
           /\ tasks[t].result = "value"

\* No parameter of inv's callable that needs resolution has a recipe.
NoRecipe(inv) ==
    get_configurable(config,
        get_params_to_resolve(inv.fun.params, inv.args, inv.kwargs)) = <<>>

\* What the caller gets from fun(*args, **kwargs) itself: TypeError when the
\* arguments do not bind; otherwise the callable's result, which for a
\* coroutine function called from blocking code is its coroutine object and
\* from a coroutine the value the caller awaits.
DirectCall(inv) ==
    IF ~Binds(inv, [n \in inv.kwargs |-> Explicit]) THEN "TypeError"
    ELSE IF inv.kind = "sync" /\ inv.fun.isAsync THEN "coroutine"
    ELSE "value"

\* C12: for a callable none of whose parameters needing resolution has a
\* recipe, inject and ainject behave like the direct call: no build is
\* entered and no constructor invoked on its behalf, the callable is invoked
\* with exactly the supplied arguments, and the caller gets the callable's own
\* result or exception.
C12_NoRecipeIsDirectCall ==
    \A t \in TaskIds :
        (tasks[t].status # "idle" /\ NoRecipe(tasks[t].inv)) =>
            /\ Len(tasks[t].stack) <= 1
            /\ \A x \in ObjectIds : objects[x].task # t
            /\ Completed(t) =>
                  /\ tasks[t].result = DirectCall(tasks[t].inv)
                  /\ tasks[t].result # "TypeError" =>
                        tasks[t].received =
                            [n \in Positional(tasks[t].inv) \cup tasks[t].inv.kwargs
                                |-> Explicit]

\* Call t ends a suspend-capable build of a cache-enabled type while the slot
\* holds the instance of another suspend-capable call's build that was
\* constructed after t's own instance: both builds found the type not cached,
\* both invoked the constructor and both were suspended before either wrote;
\* the other one wrote first and t writes last.
LateWrite(t) ==
    /\ t \in running
    /\ tasks[t].inv.kind = "async"
    /\ Len(tasks[t].stack) >= 2
    /\ Top(t).pc = "calls"
    /\ Top(t).call > Len(config[Top(t).conf].calls)
    /\ config[Top(t).conf].cache
    /\ LET y == cached[Top(t).conf] IN
       /\ y # None
       /\ objects[y].task # t
       /\ tasks[objects[y].task].inv.kind = "async"
       /\ Top(t).dependency < y
    /\ objects'[Top(t).dependency].returned

\* C13 (as stated): when two suspend-capable builds of the same cache-enabled
\* recipe interleave, both invoke the constructor and the slot ends up holding
\* the instance of the build that writes last.
C13_LastWriterWins ==
    [][\A t \in TaskIds :
          LateWrite(t) => cached'[Top(t).conf] = Top(t).dependency]_vars

\* C13 (amended): when two suspend-capable builds of the same cache-enabled
\* recipe interleave, both invoke the constructor and the slot keeps the
\* instance of the build that writes first, the later writer's instance not
\* being stored; only when the instance in the slot is false in a boolean test
\* does the later write replace it.
C13_FirstWriterStays ==
    [][\A t \in TaskIds :
          LateWrite(t) =>
              cached'[Top(t).conf] =
                  IF Truthy(cached[Top(t).conf])
                  THEN cached[Top(t).conf]
                  ELSE Top(t).dependency]_vars

\* C13 witness: two ainject calls each constructed an instance of the same
\* cache-enabled type before either build returned; both builds have returned
\* and the slot holds the instance of the one that wrote first.
C13_Witness ==
    \E x, y \in ObjectIds :
        /\ x < y
        /\ objects[x].cls = objects[y].cls
        /\ config[objects[x].cls].cache
        /\ ~config[objects[x].cls].cls_.falsy
        /\ objects[x].task # objects[y].task
        /\ tasks[objects[x].task].inv.kind = "async"
        /\ tasks[objects[y].task].inv.kind = "async"
        /\ objects[x].returned
        /\ objects[y].returned
        /\ cached[objects[x].cls] = y

\* C14: in a blocking build with an event loop running, a lifecycle call that
\* returns an asynchronous computation is handed to the loop and not waited
\* for: the computation has not run as long as the inject call holds the
\* thread, that is while the build goes on with the next lifecycle call,
\* caches and returns the instance, and up to the invocation of the callable.
C14_FireAndForget ==
    \A x \in ObjectIds : \A k \in 1..Len(objects[x].calls) :
        (/\ loop
         /\ tasks[objects[x].task].inv.kind = "sync"
         /\ config[objects[x].cls].calls[k] = "async"
         /\ objects[x].calls[k].state # "no")
        => /\ objects[x].calls[k].state \in {"scheduled", "done"}
           /\ tasks[objects[x].task].status = "running" =>
                 objects[x].calls[k].state = "scheduled"

\* C14 witness: an inject call made with a loop running has returned; its
\* callable was given the instance that is now cached, whose second lifecycle
\* call has completed and whose first, asynchronous one has not run yet.
C14_Witness ==
    \E t \in TaskIds : \E n \in DOMAIN tasks[t].received :
        /\ loop
        /\ tasks[t].inv.kind = "sync"
        /\ tasks[t].status = "returned"
        /\ tasks[t].received[n] > None
        /\ LET x == tasks[t].received[n] IN
           /\ objects[x].cls = "C"
           /\ objects[x].task = t
           /\ cached["C"] = x
           /\ config["C"].calls[1] = "async"
           /\ objects[x].calls[1].state = "scheduled"
           /\ objects[x].calls[2].state = "done"

\* The next step of call t is the invocation of a constructor that raises.
ConstructorFails(t) ==
    /\ t \in running
    /\ Len(tasks[t].stack) >= 2
    /\ Top(t).pc = "resolve"
    /\ Pending(Top(t)) = <<>>
    /\ config[Top(t).conf].cls_.raises

\* C15: when a constructor raises during a resolution, the exception reaches
\* the caller of inject / ainject; the callable is never invoked, no
\* constructor is invoked on behalf of the call afterwards, no cached slot
\* changes, and the slots populated by dependencies built earlier in the pass
\* stay populated.
C15_ConstructorFailure ==
    [][\A t \in TaskIds :
          /\ (ConstructorFails(t) /\ tasks'[t] # tasks[t]) =>
                /\ tasks'[t].status = "raised"
                /\ tasks'[t].result = "Error"
                /\ tasks'[t].received = EmptyMap
                /\ objects' = objects
                /\ cached' = cached
                /\ \A x \in ObjectIds :
                      (/\ objects[x].task = t
                       /\ objects[x].returned
                       /\ config[objects[x].cls].cache)
                      => cached'[objects[x].cls] # None
          /\ (tasks[t].status = "raised" /\ tasks[t].result = "Error") =>
                /\ tasks'[t] = tasks[t]
                /\ \A x \in 1..Len(objects') :
                      x > Len(objects) => objects'[x].task # t]_vars

\* C15 witness: a call has raised in the constructor of B after it had built
\* and cached a C for it; the slot of C still holds that instance.
C15_Witness ==
    \E t \in TaskIds : \E x \in ObjectIds :
        /\ config["B"].cls_.raises
        /\ tasks[t].status = "raised"
        /\ tasks[t].result = "Error"
        /\ tasks[t].received = EmptyMap
        /\ objects[x].task = t
        /\ objects[x].cls = "C"
        /\ objects[x].returned
        /\ cached["C"] = x

\* C16: when a lifecycle call raises during a build, the exception reaches
\* the top-level caller, the attributes already assigned stay assigned, and
\* the instance is not stored in its recipe's cached slot nor handed to any
\* consumer, so that a later resolution of the type constructs a new instance.
C16_LifecycleFailure ==
    \A x \in ObjectIds : \A k \in 1..Len(objects[x].calls) :
        objects[x].calls[k].state = "raised" =>
            /\ tasks[objects[x].task].status = "raised"
            /\ tasks[objects[x].task].result = "Error"
            /\ tasks[objects[x].task].received = EmptyMap
            /\ objects[x].attrs = config[objects[x].cls].attrs
            /\ ~objects[x].returned
            /\ cached[objects[x].cls] # x
            /\ \A s \in Slots(objects[x].cls) : s.value # x

\* C16 witness: a lifecycle call of a cache-enabled recipe with attributes
\* raised in one call, and a later call, made after that one had ended,
\* constructed a new instance of the type, whose lifecycle call raised too;
\* both instances keep their attributes and the slot is empty.
C16_Witness ==
    \E x, y \in ObjectIds :
        /\ x < y
        /\ objects[x].cls = objects[y].cls
        /\ config[objects[x].cls].cache
        /\ config[objects[x].cls].attrs # {}
        /\ objects[x].task \in tasks[objects[y].task].before
        /\ objects[x].calls[2].state = "raised"
        /\ objects[y].calls[2].state = "raised"
        /\ objects[x].attrs = config[objects[x].cls].attrs
        /\ objects[y].attrs = config[objects[y].cls].attrs
        /\ cached[objects[x].cls] = None

\* The step of call t is the invocation of a constructor that returns.
Constructs(t) ==
    /\ t \in running
    /\ Len(tasks[t].stack) >= 2
    /\ Len(objects') = Len(objects) + 1
    /\ objects'[Len(objects')].task = t

\* v is an instance of class T that call t built and that is not T's cached one.
Fresh(v, T, t) ==
    /\ Built(v, T)
    /\ objects[v].task = t

\* C17: the keyword map a constructor is invoked with is the merge of the
\* freshly resolved dependencies, then the cached singletons, then the
\* recipe's configured keyword arguments: a name in the configured keyword
\* arguments gets the configured value; every other resolvable parameter gets
\* the cached instance when one exists and a freshly built one otherwise;
\* fresh and cached never both supply a value for one name.
C17_MergePrecedence ==
    [][\A t \in TaskIds :
          Constructs(t) =>
              LET f == Top(t)
                  kw == objects'[Len(objects')].kwargs
              IN  /\ \A n \in config[f.conf].kwargs : kw[n] = Configured
                  /\ DOMAIN f.resolved \cap DOMAIN f.cached = {}
                  /\ \A k \in 1..Len(f.params) :
                        LET p == f.params[k] IN
                        p.name \notin config[f.conf].kwargs =>
                            IF config[p.ann].cache /\ cached[p.ann] # None
                            THEN kw[p.name] = cached[p.ann]
                            ELSE Fresh(kw[p.name], p.ann, t)]_vars

\* C18: the snapshot of cached singletons taken when a resolution starts has
\* an entry, under the parameter's name, for exactly the parameters whose
\* recipe has cache enabled and whose slot has been populated, whatever the
\* instance in the slot is; such a parameter is not built again.
C18_CachedShortCircuit ==
    [][\A t \in TaskIds :
          Len(tasks'[t].stack) = Len(tasks[t].stack) + 1 =>
              LET f == tasks'[t].stack[Len(tasks'[t].stack)]
                  hit == {k \in 1..Len(f.params) :
                             /\ config[f.params[k].ann].cache
                             /\ cached[f.params[k].ann] # None}
              IN  /\ DOMAIN f.cached = {f.params[k].name : k \in hit}
                  /\ \A k \in hit : f.cached[f.params[k].name] = cached[f.params[k].ann]
                  /\ \A k \in hit : \A j \in 1..Len(Pending(f)) :
                        Pending(f)[j].name # f.params[k].name]_vars

\* Only ainject has been called.
OnlyAsync == \A t \in TaskIds : tasks[t].inv.kind # "sync"

\* Every lifecycle call of instance v has completed.
AllDone(v) ==
    \A k \in 1..Len(objects[v].calls) : objects[v].calls[k].state = "done"

\* C19: when only ainject is used, also with several calls interleaving at
\* the suspension points, an instance is in its recipe's cached slot only
\* after every one of its lifecycle calls has completed; no snapshot of the
\* cache and no consumer holds an instance with a lifecycle call pending.
C19_CachedAfterLifecycle ==
    OnlyAsync =>
        /\ \A T \in Types : cached[T] # None => AllDone(cached[T])
        /\ \A T \in Types : \A s \in Slots(T) : AllDone(s.value)
        /\ \A t \in TaskIds : \A k \in 1..Len(tasks[t].stack) :
              \A n \in DOMAIN tasks[t].stack[k].cached :
                  AllDone(tasks[t].stack[k].cached[n])

\* C19 witness: with ainject calls only, the constructor of one call was
\* handed from the cache the instance that another call, not yet completed
\* when this one began, had built with an awaited lifecycle call.
C19_Witness ==
    \E x, y \in ObjectIds :
        /\ OnlyAsync
        /\ \A t \in TaskIds : tasks[t].status # "idle"
        /\ objects[x].cls = "C"
        /\ config["C"].calls[1] = "async"
        /\ cached["C"] = x
        /\ AllDone(x)
        /\ objects[y].task # objects[x].task
        /\ objects[x].task \notin tasks[objects[y].task].before
        /\ "c" \in DOMAIN objects[y].kwargs
        /\ objects[y].kwargs["c"] = x

\* C20: in a build, every constructor parameter whose type has a recipe and
\* that is not served from the cache is built through the registry before
\* the constructor is invoked (and its slot is populated if its recipe
\* caches), whatever the enclosing recipe's configured arguments are: a
\* parameter the configured keyword arguments name is built too, and the
\* constructor then receives the configured value.
C20_ConfiguredStillBuilt ==
    \A t \in TaskIds : \A k \in 2..Len(tasks[t].stack) :
        LET f == tasks[t].stack[k] IN
        /\ f.params = Dependencies(f.conf)
        /\ f.dependency # None =>
              \A j \in 1..Len(f.params) :
                  LET p == f.params[j] IN
                  p.name \notin DOMAIN f.cached =>
                      /\ p.name \in DOMAIN f.resolved
                      /\ Built(f.resolved[p.name], p.ann)
                      /\ objects[f.resolved[p.name]].task = t
                      /\ config[p.ann].cache => cached[p.ann] # None
                      /\ p.name \in config[f.conf].kwargs =>
                            objects[f.dependency].kwargs[p.name] = Configured

\* C20 witness: A's recipe configures the keyword argument c; A has been
\* constructed with the configured value after a C had been built for that
\* parameter and cached.
C20_Witness ==
    \E t \in TaskIds : \E k \in 2..Len(tasks[t].stack) :
        LET f == tasks[t].stack[k] IN
        /\ f.conf = "A"
        /\ "c" \in config["A"].kwargs
        /\ f.dependency # None
        /\ "c" \in DOMAIN f.resolved
        /\ objects[f.resolved["c"]].cls = "C"
        /\ cached["C"] # None
        /\ objects[f.dependency].kwargs["c"] = Configured

====
